---------------------------- MODULE Spec2Model ----------------------------
(***************************************************************************)
(* A model of addressEncoder/addressEncoder.go (go-owcdrivers): the        *)
(* variant-dispatch address codec AddressEncode / AddressDecode with its   *)
(* helpers calcChecksum, verifyChecksum, catData, recoverData, encodeData, *)
(* decodeData and calcHash.                                                *)
(*                                                                         *)
(* Conventions.  A Go byte slice is a record [nil, b]: nil says whether    *)
(* the slice is the nil slice, b is its contents (a sequence of 0..255).   *)
(* A Go string is a sequence of one-character strings.  Go indexes from 0, *)
(* TLA+ from 1: At(s, i) is s[i] of the code.  A run-time panic (index or  *)
(* slice bounds out of range) is the outcome "panic".                      *)
(***************************************************************************)
EXTENDS Integers, Sequences, FiniteSets, TLC

(***************************************************************************)
(* Byte slices and strings                                                 *)
(***************************************************************************)
Nil == [nil |-> TRUE, b |-> <<>>]

Bytes(s) == [nil |-> FALSE, b |-> s]

len(x) == Len(x.b)

At(x, i) == x.b[i + 1]

\* x[lo:hi] of the code, for 0 <= lo <= hi <= len(x)
Slice(x, lo, hi) == [nil |-> x.nil, b |-> SubSeq(x.b, lo + 1, hi)]

\* append(x, y...): appending nothing gives x back (also when x is nil)
Append2(x, y) == IF len(y) = 0 THEN x ELSE Bytes(x.b \o y.b)

IndexOf(seq, c) == CHOOSE i \in 1..Len(seq) : seq[i] = c

InSeq(seq, c) == \E i \in 1..Len(seq) : seq[i] = c

\* the characters of the string constants the descriptors use
Chars(s) ==
  CASE s = "" -> <<>>
    [] s = "hx" -> <<"h", "x">>
    [] s = "hX" -> <<"h", "X">>
    [] s = "hxa" -> <<"h", "x", "a">>
    [] s = "bc" -> <<"b", "c">>
    [] s = "keccak256" -> <<"k", "e", "c", "c", "a", "k", "2", "5", "6">>
    [] s = "sha3_256" -> <<"s", "h", "a", "3", "_", "2", "5", "6">>
    [] s = "doubleSHA256" ->
         <<"d", "o", "u", "b", "l", "e", "S", "H", "A", "2", "5", "6">>
    [] s = "doubleBlake256" ->
         <<"d", "o", "u", "b", "l", "e", "B", "l", "a", "k", "e", "2", "5", "6">>

(***************************************************************************)
(* encoding/hex                                                            *)
(***************************************************************************)
HexLower ==
  <<"0", "1", "2", "3", "4", "5", "6", "7", "8", "9", "a", "b", "c", "d", "e", "f">>

HexUpper ==
  <<"0", "1", "2", "3", "4", "5", "6", "7", "8", "9", "A", "B", "C", "D", "E", "F">>

IsHexChar(c) == InSeq(HexLower, c) \/ InSeq(HexUpper, c)

HexVal(c) == IF InSeq(HexLower, c) THEN IndexOf(HexLower, c) - 1
             ELSE IndexOf(HexUpper, c) - 1

\* hex.EncodeToString: two lower-case digits per byte, high nibble first
hexEncodeToString(x) ==
  [i \in 1..(2 * len(x)) |->
     LET byte == x.b[(i + 1) \div 2]
     IN  IF i % 2 = 1 THEN HexLower[(byte \div 16) + 1]
         ELSE HexLower[(byte % 16) + 1]]

\* hex.DecodeString: an error on a non-hex character or an odd length
hexDecodeString(s) ==
  IF Len(s) % 2 # 0 \/ \E i \in 1..Len(s) : ~IsHexChar(s[i])
  THEN [val |-> Nil, err |-> "hex"]
  ELSE [val |-> Bytes([i \in 1..(Len(s) \div 2) |->
                         16 * HexVal(s[2 * i - 1]) + HexVal(s[2 * i])]),
        err |-> "nil"]

(***************************************************************************)
(* The hash primitives (owcrypt.Hash, blake256.DoubleBlake256): each is a  *)
(* deterministic total function of its input with a fixed output length.   *)
(* The model keeps the length and the determinism and stands for the bits  *)
(* by a mixing function salted per algorithm.                              *)
(***************************************************************************)
HashAlgs ==
  <<"HASH160", "BLAKE2B", "RIPEMD160", "KECCAK256_RIPEMD160",
    "SHA3_256_RIPEMD160", "KECCAK256", "SHA3_256", "DOUBLE_SHA256",
    "DOUBLE_BLAKE256">>

HashOutLen(alg) ==
  IF alg \in {"KECCAK256", "SHA3_256", "DOUBLE_SHA256", "DOUBLE_BLAKE256"}
  THEN 32 ELSE 20

RECURSIVE Mix(_, _, _)
Mix(s, i, acc) ==
  IF i > Len(s) THEN acc ELSE Mix(s, i + 1, (acc * 31 + s[i] + 1) % 65521)

Hash(data, alg) ==
  LET m == Mix(data.b, 1, 7 * IndexOf(HashAlgs, alg) + Len(data.b))
  IN  Bytes([i \in 1..HashOutLen(alg) |-> (m * i + 13 * i * i + m \div 256) % 256])

(***************************************************************************)
(* Checksum Engine                                                         *)
(***************************************************************************)
\* calcChecksum: the first 4 bytes of the named hash, nil for any other name
calcChecksum(data, chkType) ==
  IF chkType = "doubleSHA256" THEN Slice(Hash(data, "DOUBLE_SHA256"), 0, 4)
  ELSE IF chkType = "doubleBlake256" THEN Slice(Hash(data, "DOUBLE_BLAKE256"), 0, 4)
  ELSE IF chkType = "keccak256" THEN Slice(Hash(data, "KECCAK256"), 0, 4)
  ELSE IF chkType = "sha3_256" THEN Slice(Hash(data, "SHA3_256"), 0, 4)
  ELSE Nil

\* the loop of verifyChecksum from index i on: checksum[i] and
\* data[len(data)-4+i] are read in that order, a read past the end panics
RECURSIVE verifyLoop(_, _, _)
verifyLoop(checksum, data, i) ==
  IF i >= 4 THEN "true"
  ELSE IF i >= len(checksum) THEN "panic"
  ELSE IF At(checksum, i) # At(data, len(data) - 4 + i) THEN "false"
  ELSE verifyLoop(checksum, data, i + 1)

\* the same loop stopping one byte early
RECURSIVE verifyLoop3(_, _, _)
verifyLoop3(checksum, data, i) ==
  IF i >= 3 THEN "true"
  ELSE IF i >= len(checksum) THEN "panic"
  ELSE IF At(checksum, i) # At(data, len(data) - 4 + i) THEN "false"
  ELSE verifyLoop3(checksum, data, i + 1)

verifyChecksum_short(data, chkType) ==
  IF len(data) < 4 THEN "panic"
  ELSE verifyLoop3(calcChecksum(Slice(data, 0, len(data) - 4), chkType), data, 0)

\* verifyChecksum: "true", "false", or "panic" (data[:len(data)-4] with
\* len(data) < 4, or checksum[i] on the nil checksum of an unknown chkType)
verifyChecksum(data, chkType) ==
  IF len(data) < 4 THEN "panic"
  ELSE verifyLoop(calcChecksum(Slice(data, 0, len(data) - 4), chkType), data, 0)

(***************************************************************************)
(* Framing                                                                 *)
(***************************************************************************)
\* catData with its operands swapped
catData_swapped(data1, data2) ==
  IF data2.nil THEN data1 ELSE Append2(data2, data1)

catData(data1, data2) ==
  IF data2.nil THEN data1 ELSE Append2(data1, data2)

RECURSIVE prefixLoop(_, _, _)
prefixLoop(data, prefix, i) ==
  IF i >= len(prefix) THEN "ok"
  ELSE IF i >= len(data) THEN "panic"
  ELSE IF At(data, i) # At(prefix, i) THEN "InvalidAddress"
  ELSE prefixLoop(data, prefix, i + 1)

RECURSIVE suffixLoop(_, _, _)
suffixLoop(data, suffix, i) ==
  IF i >= len(suffix) THEN "ok"
  ELSE IF len(data) - len(suffix) + i < 0 THEN "panic"
  ELSE IF At(data, len(data) - len(suffix) + i) # At(suffix, i) THEN "InvalidAddress"
  ELSE suffixLoop(data, suffix, i + 1)

\* recoverData: the prefix loop, the suffix loop (suffix # nil), the slice
recoverData(data, prefix, suffix) ==
  LET p == prefixLoop(data, prefix, 0)
      s == IF suffix.nil THEN "ok" ELSE suffixLoop(data, suffix, 0)
  IN  IF p # "ok" THEN [val |-> Nil, err |-> p]
      ELSE IF s # "ok" THEN [val |-> Nil, err |-> s]
      ELSE IF suffix.nil THEN [val |-> Slice(data, len(prefix), len(data)), err |-> "nil"]
      ELSE IF len(prefix) > len(data) - len(suffix) THEN [val |-> Nil, err |-> "panic"]
      ELSE [val |-> Slice(data, len(prefix), len(data) - len(suffix)), err |-> "nil"]

(***************************************************************************)
(* Hash Selector                                                           *)
(***************************************************************************)
calcHash(data, hashType) ==
  IF hashType = "h160" THEN Hash(data, "HASH160")
  ELSE IF hashType = "blake2b160" THEN Hash(data, "BLAKE2B")
  ELSE IF hashType = "ripemd160" THEN Hash(data, "RIPEMD160")
  ELSE IF hashType = "keccak256_ripemd160" THEN Hash(data, "KECCAK256_RIPEMD160")
  ELSE IF hashType = "sha3_256_ripemd160" THEN Hash(data, "SHA3_256_RIPEMD160")
  ELSE IF hashType = "keccak256" THEN Hash(data, "KECCAK256")
  ELSE IF hashType = "sha3_256_last_twenty" THEN Slice(Hash(data, "SHA3_256"), 12, 32)
  ELSE Nil

(***************************************************************************)
(* Text-encoding collaborators.  Base58Encode / Base58Decode, bech32,      *)
(* base32PolyMod and eip55 live outside addressEncoder.go; they are        *)
(* modelled from their contracts: encode(bytes) -> string and              *)
(* decode(string) -> (bytes, error).                                       *)
(***************************************************************************)
BTCAlphabet ==
  <<"1", "2", "3", "4", "5", "6", "7", "8", "9", "A", "B", "C", "D", "E", "F",
    "G", "H", "J", "K", "L", "M", "N", "P", "Q", "R", "S", "T", "U", "V", "W",
    "X", "Y", "Z", "a", "b", "c", "d", "e", "f", "g", "h", "i", "j", "k", "m",
    "n", "o", "p", "q", "r", "s", "t", "u", "v", "w", "x", "y", "z">>

Bech32Alphabet ==
  <<"q", "p", "z", "r", "y", "9", "x", "8", "g", "f", "2", "t", "v", "d", "w",
    "0", "s", "3", "j", "n", "5", "4", "k", "h", "c", "e", "6", "m", "u", "a",
    "7", "l">>

\* NewBase58Alphabet and the alphabet strings of the other codecs
Alphabet(name) == IF name = "BTCAlphabet" THEN BTCAlphabet ELSE Bech32Alphabet

RECURSIVE LeadingCount(_, _, _)
LeadingCount(s, v, i) ==
  IF i > Len(s) \/ s[i] # v THEN i - 1 ELSE LeadingCount(s, v, i + 1)

StripLeading(s, v) == SubSeq(s, LeadingCount(s, v, 1) + 1, Len(s))

\* long division of the big-endian number s (digits in base from) by to:
\* the quotient digits are accumulated in q, the remainder in r
RECURSIVE DivMod(_, _, _, _, _, _)
DivMod(s, from, to, i, q, r) ==
  IF i > Len(s) THEN [q |-> StripLeading(q, 0), r |-> r]
  ELSE LET cur == r * from + s[i]
       IN  DivMod(s, from, to, i + 1, Append(q, cur \div to), cur % to)

\* the digits in base to of the big-endian number s in base from: divide,
\* keep the remainder as the next digit from the right, go on with the quotient
RECURSIVE Convert(_, _, _, _)
ConvertStep(dm, from, to, acc) == Convert(dm.q, from, to, <<dm.r>> \o acc)

Convert(s, from, to, acc) ==
  IF Len(s) = 0 THEN acc
  ELSE ConvertStep(DivMod(s, from, to, 1, <<>>, 0), from, to, acc)

Base58Encode(b, alphabet) ==
  LET zeros == LeadingCount(b.b, 0, 1)
      digits == Convert(StripLeading(b.b, 0), 256, 58, <<>>)
  IN  [i \in 1..zeros |-> alphabet[1]] \o
      [i \in 1..Len(digits) |-> alphabet[digits[i] + 1]]

Base58Decode(str, alphabet) ==
  IF \E i \in 1..Len(str) : ~InSeq(alphabet, str[i])
  THEN [val |-> Nil, err |-> "InvalidBase58String"]
  ELSE LET zeros == LeadingCount(str, alphabet[1], 1)
           digits == [i \in 1..(Len(str) - zeros) |->
                        IndexOf(alphabet, str[zeros + i]) - 1]
       IN  [val |-> Bytes([i \in 1..zeros |-> 0] \o Convert(digits, 58, 256, <<>>)),
            err |-> "nil"]

\* A checksummed base-32 text codec: hrp, separator, two symbols per byte
\* (high and low nibble), one check symbol over the bytes.
CheckSymbol(bytes, alphabet) == alphabet[(Mix(bytes, 1, 5) % 32) + 1]

Base32Body(bytes, alphabet) ==
  [i \in 1..(2 * Len(bytes)) |->
     LET byte == bytes[(i + 1) \div 2]
     IN  IF i % 2 = 1 THEN alphabet[(byte \div 16) + 1] ELSE alphabet[(byte % 16) + 1]]

Base32Encode(sep, hrp, alphabet, data) ==
  Chars(hrp) \o <<sep>> \o Base32Body(data.b, alphabet) \o
  <<CheckSymbol(data.b, alphabet)>>

Base32Decode(sep, address, alphabet) ==
  IF ~InSeq(address, sep) THEN [val |-> Nil, err |-> "InvalidSeparator"]
  ELSE LET pos == CHOOSE i \in 1..Len(address) :
                    /\ address[i] = sep
                    /\ \A j \in (i + 1)..Len(address) : address[j] # sep
           body == SubSeq(address, pos + 1, Len(address) - 1)
           bytes == [i \in 1..(Len(body) \div 2) |->
                       16 * (IndexOf(alphabet, body[2 * i - 1]) - 1)
                       + (IndexOf(alphabet, body[2 * i]) - 1)]
       IN  IF \/ pos = Len(address)
              \/ Len(body) % 2 # 0
              \/ \E i \in 1..Len(body) :
                   \/ ~InSeq(alphabet, body[i])
                   \/ IndexOf(alphabet, body[i]) > 16
              \/ ~InSeq(alphabet, address[Len(address)])
           THEN [val |-> Nil, err |-> "InvalidData"]
           ELSE IF address[Len(address)] # CheckSymbol(bytes, alphabet)
           THEN [val |-> Nil, err |-> "InvalidChecksum"]
           ELSE [val |-> Bytes(bytes), err |-> "nil"]

\* bech32.Encode(hrp, alphabet, data) and bech32.Decode(address, alphabet)
bech32Encode(hrp, alphabet, data) == Base32Encode("1", hrp, Alphabet(alphabet), data)

bech32Decode(address, alphabet) == Base32Decode("1", address, Alphabet(alphabet))

\* base32PolyMod.Encode(prefix, alphabet, data) and base32PolyMod.Decode
base32PolyModEncode(prefix, alphabet, data) ==
  Base32Encode(":", prefix, Alphabet(alphabet), data)

base32PolyModDecode(address, alphabet) == Base32Decode(":", address, Alphabet(alphabet))

\* eip55: "0x", then the hex digits, a letter in upper case where the
\* matching nibble of the Keccak hash is 8 or more
Eip55_encode(hash) ==
  LET hex == hexEncodeToString(hash)
      k == Hash(hash, "KECCAK256").b
      nibble(i) == LET byte == k[(((i - 1) \div 2) % 32) + 1]
                   IN  IF i % 2 = 1 THEN byte \div 16 ELSE byte % 16
  IN  <<"0", "x">> \o
      [i \in 1..Len(hex) |->
         IF nibble(i) >= 8 THEN HexUpper[IndexOf(HexLower, hex[i])] ELSE hex[i]]

Eip55_decode(address) ==
  IF Len(address) < 2 \/ address[1] # "0" \/ address[2] # "x"
  THEN [val |-> Nil, err |-> "InvalidPrefix"]
  ELSE LET r == hexDecodeString(SubSeq(address, 3, Len(address)))
       IN  IF r.err # "nil" THEN r
           ELSE IF Eip55_encode(r.val) # address
           THEN [val |-> Nil, err |-> "InvalidChecksum"]
           ELSE r

(***************************************************************************)
(* Variant Codec                                                           *)
(***************************************************************************)
encodeData(data, encodeType, alphabet) ==
  IF encodeType = "base58" THEN Base58Encode(data, Alphabet(alphabet)) ELSE <<>>

decodeData(data, encodeType, alphabet, checkType, prefix, suffix) ==
  IF encodeType = "base58"
  THEN LET r == Base58Decode(data, Alphabet(alphabet))
           v == verifyChecksum(r.val, checkType)
       IN  IF r.err # "nil" THEN [val |-> Nil, err |-> "InvalidAddress"]
           ELSE IF v = "panic" THEN [val |-> Nil, err |-> "panic"]
           ELSE IF v = "false" THEN [val |-> Nil, err |-> "InvalidAddress"]
           ELSE recoverData(Slice(r.val, 0, len(r.val) - 4), prefix, suffix)
  ELSE [val |-> Nil, err |-> "nil"]

\* AddressEncode, lines 123-125, with the test of the length left out
encodeHash_always(hash, addresstype) == calcHash(hash, addresstype.hashType)

\* AddressEncode, lines 123-125: the local hash after the conditional re-hash
encodeHash(hash, addresstype) ==
  IF len(hash) # addresstype.hashLen THEN calcHash(hash, addresstype.hashType)
  ELSE hash

\* AddressEncode, line 136, with prefix and suffix exchanged
encodeFrame_suffixFirst(hash, addresstype) ==
  catData(catData(addresstype.suffix, hash), addresstype.prefix)

\* AddressEncode, line 136: the local data
encodeFrame(hash, addresstype) ==
  catData(catData(addresstype.prefix, hash), addresstype.suffix)

\* AddressEncode, line 137: the buffer handed to encodeData
encodeBuffer(hash, addresstype) ==
  LET data == encodeFrame(hash, addresstype)
  IN  catData(data, calcChecksum(data, addresstype.checksumType))

AddressEncode(hash, addresstype) ==
  IF addresstype.encodeType = "bech32"
  THEN bech32Encode(addresstype.checksumType, addresstype.alphabet, hash)
  ELSE LET h == encodeHash(hash, addresstype)
       IN  IF addresstype.encodeType = "base32PolyMod"
           THEN base32PolyModEncode(addresstype.checksumType, addresstype.alphabet, h)
           ELSE IF addresstype.encodeType = "eip55" THEN Eip55_encode(h)
           ELSE IF addresstype.encodeType = "ICX"
           THEN Chars(addresstype.checksumType) \o hexEncodeToString(h)
           ELSE encodeData(encodeBuffer(h, addresstype), addresstype.encodeType,
                           addresstype.alphabet)

\* the outcome of AddressDecode: the returned slice, the returned error
\* ("nil" for none, "panic" for a run-time panic), whether the call came to
\* its test of the length, and payload, the local ret / data that is tested
Outcome(val, err, tested, payload) ==
  [val |-> val, err |-> err, tested |-> tested, payload |-> payload]

\* AddressDecode, lines 172-186: address[0] and address[1] are read in that
\* order, the second only when the first is 'h'
decodeICX(address) ==
  IF Len(address) = 0 THEN Outcome(Nil, "panic", FALSE, Nil)
  ELSE IF address[1] # "h" THEN Outcome(Nil, "InvalidAddress", FALSE, Nil)
  ELSE IF Len(address) < 2 THEN Outcome(Nil, "panic", FALSE, Nil)
  ELSE IF address[2] # "x" THEN Outcome(Nil, "InvalidAddress", FALSE, Nil)
  ELSE IF Len(address) - 2 # 40 THEN Outcome(Nil, "InvalidHashLength", TRUE, Nil)
  ELSE LET r == hexDecodeString(SubSeq(address, 3, Len(address)))
       IN  IF r.err # "nil" THEN Outcome(Nil, r.err, TRUE, Nil)
           ELSE Outcome(r.val, "nil", TRUE, r.val)

\* AddressDecode, lines 142-171 and 187-194, with every length accepted
decodeChecked_anyLength(r, wanted) ==
  IF r.err = "panic" THEN Outcome(Nil, "panic", FALSE, Nil)
  ELSE IF r.err # "nil" THEN Outcome(Nil, "InvalidAddress", FALSE, Nil)
  ELSE Outcome(r.val, "nil", TRUE, r.val)

\* AddressDecode, lines 142-171 and 187-194: a collaborator's (or
\* decodeData's) result r and the set of lengths the branch accepts
decodeChecked(r, wanted) ==
  IF r.err = "panic" THEN Outcome(Nil, "panic", FALSE, Nil)
  ELSE IF r.err # "nil" THEN Outcome(Nil, "InvalidAddress", FALSE, Nil)
  ELSE IF len(r.val) \notin wanted THEN Outcome(Nil, "InvalidHashLength", TRUE, r.val)
  ELSE Outcome(r.val, "nil", TRUE, r.val)

AddressDecode(address, addresstype) ==
  IF addresstype.encodeType = "bech32"
  THEN decodeChecked(bech32Decode(address, addresstype.alphabet), {20, 32})
  ELSE IF addresstype.encodeType = "base32PolyMod"
  THEN decodeChecked(base32PolyModDecode(address, addresstype.alphabet),
                     {addresstype.hashLen})
  ELSE IF addresstype.encodeType = "eip55"
  THEN decodeChecked(Eip55_decode(address), {20})
  ELSE IF addresstype.encodeType = "ICX" THEN decodeICX(address)
  ELSE decodeChecked(decodeData(address, addresstype.encodeType, addresstype.alphabet,
                                addresstype.checksumType, addresstype.prefix,
                                addresstype.suffix),
                     {addresstype.hashLen})

(***************************************************************************)
(* The inputs of the model                                                 *)
(***************************************************************************)
\* hashLen of the descriptors of the framed and polymod dialects: 0..MaxHashLen
MaxHashLen == 2

\* prefix and suffix hold at most MaxFixLen bytes
MaxFixLen == 2

\* a framed address decodes to at most MaxBufLen bytes before its checksum
MaxBufLen == 3

\* the byte sequences over vals of length lo..hi
SeqsOf(vals, lo, hi) == UNION {[1..n -> vals] : n \in lo..hi}

\* a digest of n bytes, none of them equal to its neighbour
Ramp(n) == [i \in 1..n |-> (37 * i) % 256]

None == ""

ChecksumTypes == {"doubleSHA256", "doubleBlake256", "keccak256", "sha3_256"}

HashTypes ==
  {"h160", "blake2b160", "ripemd160", "keccak256_ripemd160", "sha3_256_ripemd160",
   "keccak256", "sha3_256_last_twenty"}

Dialects == {"base58", "bech32", "base32PolyMod", "eip55", "ICX"}

\* the prefixes and suffixes: nil, empty, and the first bytes of 0, 1, 0, 1, ...
Fixes == {Nil} \cup {Bytes([i \in 1..n |-> (i + 1) % 2]) : n \in 0..MaxFixLen}

AddressTypeOf(e, a, c, h, n, p, s) ==
  [encodeType |-> e, alphabet |-> a, checksumType |-> c, hashType |-> h,
   hashLen |-> n, prefix |-> p, suffix |-> s]

\* framed descriptors: every prefix and suffix, short digests
FramedTypes ==
  {AddressTypeOf("base58", "BTCAlphabet", c, None, n, p, s) :
     c \in {"doubleSHA256", None}, n \in 0..MaxHashLen, p \in Fixes, s \in Fixes}

\* framed descriptors: every checksum and every hash algorithm, 20-byte digests
AlgorithmTypes ==
  {AddressTypeOf("base58", "BTCAlphabet", c, "h160", 20, Bytes(<<0>>), Nil) :
     c \in ChecksumTypes \cup {None}}
  \cup {AddressTypeOf("base58", "BTCAlphabet", "doubleSHA256", h, 20, Bytes(<<0>>), Nil) :
          h \in HashTypes \cup {None}}

\* the other dialects, and an encodeType ("hex") the code does not know
OtherTypes ==
  {AddressTypeOf("ICX", "", c, h, n, Nil, Nil) :
     c \in {"hx", "hX", "hxa", None}, h \in {"sha3_256_last_twenty", None},
     n \in {MaxHashLen, 19, 20, 32}}
  \cup {AddressTypeOf(e, "Bech32Alphabet", "bc", h, n, Nil, Nil) :
          e \in {"bech32", "base32PolyMod", "eip55", "hex"},
          h \in {"sha3_256_last_twenty", None}, n \in {MaxHashLen, 19, 20, 32}}


\* the digest lengths around the ones the dialects expect
LongLens == {19, 20, 21, 31, 32, 33}

ShortHashes == {Nil} \cup {Bytes(s) : s \in SeqsOf({0, 1}, 0, MaxHashLen + 1)}

LongHashes == {Bytes(Ramp(n)) : n \in LongLens}

\* the inputs of AddressEncode under descriptor t: short ones for the framed
\* descriptors of short digests, long ones for those of 20-byte digests, both
\* for the other dialects
Hashes(t) ==
  IF t.encodeType # "base58" THEN ShortHashes \cup LongHashes
  ELSE IF t.hashLen <= MaxHashLen THEN ShortHashes
  ELSE {Nil, Bytes(<<1>>)} \cup {Bytes(Ramp(n)) : n \in {19, 20, 21}}

\* strings no codec produced
Garbage ==
  {<<>>, <<"h">>, <<"x">>, <<"0">>, <<"0", "x">>, <<"0", "x", "g", "g">>,
   <<"1">>, <<"1", "1", "1">>, <<"!", "!", "!", "!", "!", "!">>}

\* ICX strings: a head, then n times the digit c with the k-th replaced by d
ICXString(head, n, c, k, d) == head \o [i \in 1..n |-> IF i = k THEN d ELSE c]

ICXStrings ==
  {ICXString(head, n, c, 7, d) :
     head \in {<<>>, <<"h">>, <<"h", "x">>, <<"h", "X">>, <<"x", "h">>, <<"H", "x">>},
     n \in {0, 39, 40, 41}, c \in {"0", "a"}, d \in {"0", "F", "g"}}

\* the buffers a framed address may decode to
Buffers == {Bytes(s) : s \in SeqsOf({0, 1}, 0, MaxBufLen)}

\* the strings AddressDecode is called on apart from AddressEncode's own
Addresses(t) ==
  Garbage \cup
  (IF t.encodeType = "bech32"
   THEN {bech32Encode(t.checksumType, t.alphabet, h) : h \in Hashes(t)}
   ELSE IF t.encodeType = "base32PolyMod"
   THEN {base32PolyModEncode(t.checksumType, t.alphabet, h) : h \in Hashes(t)}
   ELSE IF t.encodeType = "eip55" THEN {Eip55_encode(h) : h \in Hashes(t)}
   ELSE IF t.encodeType = "ICX" THEN ICXStrings
   ELSE IF t.encodeType = "base58"
   THEN {Base58Encode(b, Alphabet(t.alphabet)) : b \in Buffers}
        \cup {Base58Encode(catData(b, calcChecksum(b, t.checksumType)),
                           Alphabet(t.alphabet)) : b \in Buffers}
   ELSE {})

(***************************************************************************)
(* The calls.  One descriptor, built once; AddressEncode and AddressDecode *)
(* are called on it again and again.                                       *)
(***************************************************************************)
VARIABLES
  addresstype,  \* the AddressType descriptor
  origin,       \* where address comes from: "none", "encode", "tamper", "receive"
  hash,         \* the argument of the last AddressEncode
  digest,       \* its local hash after line 125 (nil in the bech32 branch)
  data,         \* the buffer it handed to encodeData (nil in the other branches)
  address,      \* the address string
  decoded,      \* whether AddressDecode has returned for address
  out,          \* the outcome of that AddressDecode
  heap,         \* the backing array of addresstype.prefix (concurrent calls)
  calls,        \* the concurrent calls, one per goroutine
  written       \* for each cell of heap, the calls that wrote it

svars == <<addresstype, origin, hash, digest, data, address, decoded, out>>

cvars == <<heap, calls, written>>

vars == <<svars, cvars>>

NoOutcome == Outcome(Nil, "nil", FALSE, Nil)

Init ==
  /\ \/ addresstype \in OtherTypes
     \/ addresstype \in AlgorithmTypes
     \/ addresstype \in FramedTypes
  /\ origin = "none"
  /\ hash = Nil
  /\ digest = Nil
  /\ data = Nil
  /\ address = <<>>
  /\ decoded = FALSE
  /\ out = NoOutcome
  /\ heap = <<>>
  /\ calls = <<>>
  /\ written = <<>>

\* a call of AddressEncode(h, addresstype)
Encode(h) ==
  /\ origin' = "encode"
  /\ hash' = h
  /\ digest' = IF addresstype.encodeType = "bech32" THEN Nil
               ELSE encodeHash(h, addresstype)
  /\ data' = IF addresstype.encodeType \in Dialects \ {"base58"} THEN Nil
             ELSE encodeBuffer(encodeHash(h, addresstype), addresstype)
  /\ address' = AddressEncode(h, addresstype)
  /\ decoded' = FALSE
  /\ out' = NoOutcome
  /\ UNCHANGED <<addresstype, cvars>>

\* the address arrives from elsewhere
Receive(a) ==
  /\ origin' = "receive"
  /\ address' = a
  /\ hash' = Nil
  /\ digest' = Nil
  /\ data' = Nil
  /\ decoded' = FALSE
  /\ out' = NoOutcome
  /\ UNCHANGED <<addresstype, cvars>>

\* an encoded framed address is text-decoded, byte k of its trailing 4 is
\* altered by d, and the bytes are text-encoded again
Tamper(k, d) ==
  /\ LET buf == Base58Decode(address, Alphabet(addresstype.alphabet)).val
         pos == len(buf) - 4 + k + 1
         new == [buf EXCEPT !.b[pos] = (@ + d) % 256]
     IN  address' = Base58Encode(new, Alphabet(addresstype.alphabet))
  /\ origin' = "tamper"
  /\ decoded' = FALSE
  /\ out' = NoOutcome
  /\ UNCHANGED <<addresstype, hash, digest, data, cvars>>

\* a call of AddressDecode(address, addresstype)
Decode ==
  /\ origin # "none"
  /\ ~decoded
  /\ decoded' = TRUE
  /\ out' = AddressDecode(address, addresstype)
  /\ UNCHANGED <<addresstype, origin, hash, digest, data, address, cvars>>

\* a new call starts from the idle state
EncodeCall == origin = "none" /\ \E h \in Hashes(addresstype) : Encode(h)

ReceiveCall == origin = "none" /\ \E a \in Addresses(addresstype) : Receive(a)

TamperCall ==
  /\ origin = "encode"
  /\ addresstype.encodeType = "base58"
  /\ len(data) >= 4
  /\ \E k \in 0..3, d \in {1, 255} : Tamper(k, d)

DecodeCall == Decode

Next == EncodeCall \/ ReceiveCall \/ TamperCall \/ DecodeCall

Spec == Init /\ [][Next]_vars

(***************************************************************************)
(* Concurrent calls on one descriptor.  addresstype.prefix is a slice of   *)
(* heap, its backing array, which may be longer than the prefix (spare     *)
(* capacity).  A call's buffer is a slice [shared, n, b]: the first n      *)
(* cells of heap when shared, the call's own bytes b otherwise.  The       *)
(* goroutines interleave at the statements of AddressEncode and at each    *)
(* byte append copies into heap.                                           *)
(***************************************************************************)
\* the goroutines
NumCalls == 2

\* the spare capacity of the prefix: 0..MaxSpare
MaxSpare == 7

Goroutines == 1..NumCalls

\* the digest goroutine g passes: two bytes, different for each g
DigestOf(g) == Bytes(<<g, 10 + g>>)

ConcTypes ==
  {AddressTypeOf("base58", "BTCAlphabet", "doubleSHA256", None, 2, Bytes(<<0>>), s) :
     s \in {Nil, Bytes(<<9>>)}}

Content(sl) == IF sl.shared THEN SubSeq(heap, 1, sl.n) ELSE sl.b

Private(s) == [shared |-> FALSE, n |-> Len(s), b |-> s]

\* append(sl, y...): nothing for an empty y; in place, byte by byte from
\* todo, when sl is a slice of heap and y fits its capacity; else a copy
AppendTo(c, sl, y) ==
  IF Len(y) = 0 THEN [c EXCEPT !.sl = sl]
  ELSE IF sl.shared /\ sl.n + Len(y) <= Len(heap) THEN [c EXCEPT !.sl = sl, !.todo = y]
  ELSE [c EXCEPT !.sl = Private(Content(sl) \o y)]

\* catData(sl, data2) as a step of call c
CatStep(c, sl, data2) == IF data2.nil THEN [c EXCEPT !.sl = sl] ELSE AppendTo(c, sl, data2.b)

ConcInit ==
  /\ addresstype \in ConcTypes
  /\ origin = "none"
  /\ hash = Nil
  /\ digest = Nil
  /\ data = Nil
  /\ address = <<>>
  /\ decoded = FALSE
  /\ out = NoOutcome
  /\ \E spare \in 0..MaxSpare : heap = addresstype.prefix.b \o [i \in 1..spare |-> 0]
  /\ \E kind \in [Goroutines -> {"encode", "decode"}] :
       calls = [g \in Goroutines |->
                  [kind |-> kind[g],
                   pc |-> IF kind[g] = "encode" THEN "cat1" ELSE "dec",
                   hash |-> DigestOf(g),
                   address |-> AddressEncode(DigestOf(g), addresstype),
                   sl |-> Private(<<>>),
                   todo |-> <<>>,
                   sum |-> Nil,
                   res |-> <<>>,
                   err |-> "nil"]]
  /\ written = [i \in 1..Len(heap) |-> {}]

Step(g, c) == calls' = [calls EXCEPT ![g] = c] /\ UNCHANGED <<svars, heap, written>>

\* line 136, catData(addresstype.prefix, hash)
Cat1(g) ==
  /\ calls[g].pc = "cat1"
  /\ Step(g, [CatStep(calls[g],
                      [shared |-> TRUE, n |-> len(addresstype.prefix), b |-> <<>>],
                      encodeHash(calls[g].hash, addresstype))
              EXCEPT !.pc = "cat2"])

\* append copies the next byte into the backing array
Write(g) ==
  /\ calls[g].todo # <<>>
  /\ heap' = [heap EXCEPT ![calls[g].sl.n + 1] = Head(calls[g].todo)]
  /\ written' = [written EXCEPT ![calls[g].sl.n + 1] = @ \cup {g}]
  /\ calls' = [calls EXCEPT ![g].sl.n = @ + 1, ![g].todo = Tail(@)]
  /\ UNCHANGED svars

\* line 136, catData(..., addresstype.suffix)
Cat2(g) ==
  /\ calls[g].pc = "cat2"
  /\ calls[g].todo = <<>>
  /\ Step(g, [CatStep(calls[g], calls[g].sl, addresstype.suffix) EXCEPT !.pc = "sum"])

\* line 137, calcChecksum(data, addresstype.checksumType)
Sum(g) ==
  /\ calls[g].pc = "sum"
  /\ calls[g].todo = <<>>
  /\ Step(g, [calls[g] EXCEPT
                !.sum = calcChecksum(Bytes(Content(calls[g].sl)), addresstype.checksumType),
                !.pc = "cat3"])

\* line 137, catData(data, checksum)
Cat3(g) ==
  /\ calls[g].pc = "cat3"
  /\ calls[g].todo = <<>>
  /\ Step(g, [CatStep(calls[g], calls[g].sl, calls[g].sum) EXCEPT !.pc = "enc"])

\* line 137, encodeData
Enc(g) ==
  /\ calls[g].pc = "enc"
  /\ calls[g].todo = <<>>
  /\ Step(g, [calls[g] EXCEPT
                !.res = encodeData(Bytes(Content(calls[g].sl)), addresstype.encodeType,
                                   addresstype.alphabet),
                !.pc = "done"])

\* AddressDecode, which reads the prefix from its backing array
Dec(g) ==
  /\ calls[g].pc = "dec"
  /\ LET t == [addresstype EXCEPT
                 !.prefix = Bytes(SubSeq(heap, 1, len(addresstype.prefix)))]
         r == AddressDecode(calls[g].address, t)
     IN  Step(g, [calls[g] EXCEPT !.res = r.val.b, !.err = r.err, !.pc = "done"])

ConcCat1 == \E g \in Goroutines : Cat1(g)

ConcWrite == \E g \in Goroutines : Write(g)

ConcCat2 == \E g \in Goroutines : Cat2(g)

ConcSum == \E g \in Goroutines : Sum(g)

ConcCat3 == \E g \in Goroutines : Cat3(g)

ConcEnc == \E g \in Goroutines : Enc(g)

ConcDec == \E g \in Goroutines : Dec(g)

ConcNext ==
  ConcCat1 \/ ConcWrite \/ ConcCat2 \/ ConcSum \/ ConcCat3 \/ ConcEnc \/ ConcDec

SpecConc == ConcInit /\ [][ConcNext]_vars

\* what call g returns when the calls run one after the other
Sequential(g) ==
  IF calls[g].kind = "encode" THEN AddressEncode(calls[g].hash, addresstype)
  ELSE AddressDecode(calls[g].address, addresstype).val.b

\* C3: concurrent calls on distinct inputs sharing one descriptor return
\* what they return one after the other; no call writes bytes another call
\* reads or writes, the spare capacity of the prefix included; the prefix
\* is unchanged.
C3_ConcurrentAsSequential ==
  /\ \A g \in DOMAIN calls :
       calls[g].pc = "done" => calls[g].res = Sequential(g) /\ calls[g].err = "nil"
  /\ \A i \in DOMAIN written : Cardinality(written[i]) <= 1
  /\ calls # <<>> => addresstype.prefix.b = SubSeq(heap, 1, len(addresstype.prefix))

(***************************************************************************)
(* Properties of the calls                                                 *)
(***************************************************************************)
Supported == addresstype.checksumType \in ChecksumTypes

\* the bytes the framed address text-decodes to
Decoded58 == Base58Decode(address, Alphabet(addresstype.alphabet))

HasPrefix(s, p) == Len(s) >= Len(p) /\ SubSeq(s, 1, Len(p)) = p

HasSuffix(s, p) == Len(s) >= Len(p) /\ SubSeq(s, Len(s) - Len(p) + 1, Len(s)) = p

\* the descriptors a round trip goes through: a checksum the framed dialect
\* knows, the digest lengths bech32, eip55 and ICX accept, the ICX prefix "hx"
RoundTripType ==
  CASE addresstype.encodeType = "base58" -> Supported
    [] addresstype.encodeType = "bech32" -> len(hash) \in {20, 32}
    [] addresstype.encodeType = "base32PolyMod" -> TRUE
    [] addresstype.encodeType = "eip55" -> addresstype.hashLen = 20
    [] addresstype.encodeType = "ICX" ->
         addresstype.hashLen = 20 /\ addresstype.checksumType = "hx"

RoundTripCase ==
  /\ origin = "encode"
  /\ decoded
  /\ addresstype.encodeType \in Dialects
  /\ len(hash) = addresstype.hashLen

RoundTripDone == out.err = "nil" /\ out.val.b = hash.b

\* C1 as stated: for every dialect and every descriptor of it (any prefix,
\* suffix, checksumType, hashLen), decoding the encoding of a digest of
\* hashLen bytes returns the digest and no error.
C1_RoundTripAnyType == RoundTripCase => RoundTripDone

\* C1, amended: decoding the encoding of a digest of hashLen bytes returns
\* the digest and no error for the framed dialect with one of the four
\* checksums, for base32PolyMod, for bech32 with a digest of 20 or 32 bytes,
\* for eip55 with hashLen 20 and for ICX with hashLen 20 and the prefix "hx";
\* for every other descriptor it does not return the digest.
C1_RoundTrip == RoundTripCase => (RoundTripDone <=> RoundTripType)

C1_Witness ==
  /\ RoundTripCase
  /\ RoundTripDone
  /\ addresstype.encodeType = "base58"
  /\ len(addresstype.prefix) > 0
  /\ len(addresstype.suffix) > 0
  /\ len(hash) > 0

\* C2: AddressDecode ends, for every string and descriptor, with a digest
\* and no error or with nil and an error; it never panics and never returns
\* a digest together with an error.
C2_DecodeTotal ==
  decoded => /\ out.err # "panic"
             /\ out.err # "nil" => out.val = Nil

\* C4: a framed address with a supported checksum whose text-decoded bytes
\* are altered in one of the trailing 4 and encoded again decodes to
\* InvalidAddress; verifyChecksum is true only when each of the 4 trailing
\* bytes equals the byte of the recomputed checksum at its position.
C4_ChecksumSensitivity ==
  /\ (origin = "tamper" /\ decoded /\ Supported) => out.err = "InvalidAddress"
  /\ (/\ addresstype.encodeType = "base58"
      /\ Decoded58.err = "nil"
      /\ verifyChecksum(Decoded58.val, addresstype.checksumType) = "true")
     => LET buf == Decoded58.val.b
            n == Len(buf) - 4
            sum == calcChecksum(Bytes(SubSeq(buf, 1, n)), addresstype.checksumType).b
        IN  Len(sum) >= 4 /\ \A i \in 1..4 : buf[n + i] = sum[i]

C4_Witness ==
  /\ origin = "tamper"
  /\ decoded
  /\ Supported
  /\ out.err = "InvalidAddress"
  /\ LET buf == Decoded58.val.b
         n == Len(buf) - 4
         sum == calcChecksum(Bytes(SubSeq(buf, 1, n)), addresstype.checksumType).b
     IN  buf[n + 4] # sum[4] /\ \A i \in 1..3 : buf[n + i] = sum[i]

StartsWithHx == Len(address) >= 2 /\ address[1] = "h" /\ address[2] = "x"

\* C5: with an ICX descriptor AddressDecode returns InvalidAddress for every
\* string that does not start with "hx", else InvalidHashLength when the
\* rest is not 40 characters long, else the hex-decoding of the rest or the
\* hex decoder's error.
C5_ICXDecode ==
  (decoded /\ addresstype.encodeType = "ICX") =>
    IF ~StartsWithHx THEN out.err = "InvalidAddress" /\ out.val = Nil
    ELSE IF Len(address) - 2 # 40 THEN out.err = "InvalidHashLength" /\ out.val = Nil
    ELSE LET r == hexDecodeString(SubSeq(address, 3, Len(address)))
         IN  out.err = r.err /\ out.val = r.val /\ (r.err = "nil" => len(r.val) = 20)

\* C6: in the framed branch the buffer handed to the text encoder is
\* prefix, digest, suffix, checksum in that order, the checksum being
\* calcChecksum of prefix ++ digest ++ suffix (4 bytes for each of the four
\* checksum types), for every prefix and suffix, empty and nil ones too.
C6_FrameOrder ==
  (origin = "encode" /\ addresstype.encodeType = "base58") =>
    LET framed == addresstype.prefix.b \o digest.b \o addresstype.suffix.b
        sum == calcChecksum(Bytes(framed), addresstype.checksumType).b
    IN  /\ data.b = framed \o sum
        /\ Supported => Len(sum) = 4
        /\ address = Base58Encode(Bytes(framed \o sum), BTCAlphabet)

C6_Witness ==
  /\ origin = "encode"
  /\ addresstype.encodeType = "base58"
  /\ Supported
  /\ len(addresstype.prefix) = 2
  /\ len(addresstype.suffix) = 1
  /\ len(digest) = 2
  /\ len(data) = 9

\* C7: with hashType none AddressEncode frames and encodes the input bytes
\* themselves in every dialect but bech32, whatever the input's length.
C7_HashTypeNone ==
  (/\ origin = "encode"
   /\ addresstype.hashType = None
   /\ addresstype.encodeType \in Dialects \ {"bech32"})
  => digest.b = hash.b

\* the lengths one byte off the digest length the dialect expects
OffByOne(n) ==
  IF addresstype.encodeType = "bech32" THEN n \in {19, 21, 31, 33}
  ELSE IF addresstype.encodeType = "eip55" THEN n \in {19, 21}
  ELSE n \in {addresstype.hashLen - 1, addresstype.hashLen + 1}

\* C8: when the payload recovered by decoding is one byte shorter or longer
\* than the digest length of the dialect (hashLen for framed and
\* base32PolyMod, 20 for eip55, 20 or 32 for bech32, 40 hex characters for
\* ICX), AddressDecode returns InvalidHashLength and no payload.
C8_LengthSensitivity ==
  decoded =>
    IF addresstype.encodeType = "ICX"
    THEN (StartsWithHx /\ Len(address) - 2 \in {39, 41})
         => out.err = "InvalidHashLength" /\ out.val = Nil
    ELSE (/\ addresstype.encodeType \in Dialects
          /\ out.tested
          /\ OffByOne(len(out.payload)))
         => out.err = "InvalidHashLength" /\ out.val = Nil

C8_Witness ==
  /\ decoded
  /\ addresstype.encodeType = "base58"
  /\ out.tested
  /\ len(out.payload) = addresstype.hashLen + 1
  /\ out.err = "InvalidHashLength"

\* C9: a checksum-valid framed buffer, its trailing 4 bytes removed, must
\* begin with the prefix and end with the suffix, the two not overlapping,
\* or AddressDecode returns InvalidAddress; the payload is the bytes between
\* them, returned when hashLen long, else InvalidHashLength.
C9_FrameStrip ==
  (/\ decoded
   /\ addresstype.encodeType = "base58"
   /\ Decoded58.err = "nil"
   /\ verifyChecksum(Decoded58.val, addresstype.checksumType) = "true")
  => LET body == SubSeq(Decoded58.val.b, 1, len(Decoded58.val) - 4)
         p == addresstype.prefix.b
         s == addresstype.suffix.b
         payload == SubSeq(body, Len(p) + 1, Len(body) - Len(s))
     IN  IF \/ ~HasPrefix(body, p)
            \/ ~HasSuffix(body, s)
            \/ Len(body) < Len(p) + Len(s)
         THEN out.err = "InvalidAddress"
         ELSE IF Len(payload) # addresstype.hashLen
         THEN out.err = "InvalidHashLength"
         ELSE out.err = "nil" /\ out.val.b = payload

\* C10: in every dialect but bech32 the digest that is encoded is the input
\* when len(input) = hashLen and calcHash(input, hashType) otherwise; in
\* bech32 the input itself goes to the encoder, whatever hashLen and
\* hashType are.
C10_ConditionalRehash ==
  origin = "encode" =>
    IF addresstype.encodeType = "bech32"
    THEN /\ address = bech32Encode(addresstype.checksumType, addresstype.alphabet, hash)
         /\ \A n \in {0, 20, 33}, h \in HashTypes \cup {None} :
              AddressEncode(hash, [addresstype EXCEPT !.hashLen = n, !.hashType = h])
              = address
    ELSE LET wanted == IF len(hash) = addresstype.hashLen THEN hash
                       ELSE calcHash(hash, addresstype.hashType)
         IN  /\ digest = wanted
             /\ addresstype.encodeType = "ICX" =>
                  address = Chars(addresstype.checksumType) \o hexEncodeToString(wanted)
             /\ addresstype.encodeType = "eip55" => address = Eip55_encode(wanted)

C10_Witness ==
  /\ origin = "encode"
  /\ addresstype.encodeType = "ICX"
  /\ addresstype.hashType = "sha3_256_last_twenty"
  /\ len(hash) = 21
  /\ addresstype.hashLen = 20
  /\ len(digest) = 20
  /\ digest # hash

=============================================================================
